---- MODULE Spec2Model ----
(***************************************************************************)
(* Dolev-Strong protocol simulator (App in ControlPanel.tsx).              *)
(*                                                                         *)
(* The state is the React state of App.  A button handler runs against the *)
(* state of the latest render; a setTimeout callback runs against the      *)
(* values its closure captured when it was scheduled (they are stored in   *)
(* the timer record).  Every timer has the same 500 ms delay, so pending   *)
(* timers fire in the order in which they were scheduled.                  *)
(* The text log (messageLog / addLog) and node positions are rendering     *)
(* only and are not part of the model; a message's id string is a function *)
(* of its round, fromNode, toNode and value and is left out.               *)
(***************************************************************************)
EXTENDS Integers, Sequences, FiniteSets, TLC

VARIABLES numNodes, numByzantine, senderValue, currentRound, nodes,
          allMessages, isProtocolRunning, protocolComplete, byzantineNodes,
          timers, runId, executedRounds, setupClicks

vars == <<numNodes, numByzantine, senderValue, currentRound, nodes,
          allMessages, isProtocolRunning, protocolComplete, byzantineNodes,
          timers, runId, executedRounds, setupClicks>>

config == <<numNodes, numByzantine, senderValue, byzantineNodes>>

(* ------------------------------ bounds --------------------------------- *)
\* number of clicks on the configuration controls and on Reset explored
MaxSetupClicks == 3
\* number of setTimeout callbacks that may be pending at once
MaxTimers == 3

(* ------------------------- program constants --------------------------- *)
MinNumNodes == 3
MaxNumNodes == 10
InitNumNodes == 3
InitNumByzantine == 1
InitSenderValue == 7
\* finalDecision: null represents the bottom decision
Null == 0 - 1

(* ------------------------------ helpers -------------------------------- *)
Max(a, b) == IF a >= b THEN a ELSE b
Min(a, b) == IF a <= b THEN a ELSE b

RECURSIVE SortedSeq(_)
\* Array.from(set).sort((a, b) => a - b)
SortedSeq(S) ==
    IF S = {} THEN <<>>
    ELSE LET m == CHOOSE x \in S : \A y \in S : x <= y
         IN  <<m>> \o SortedSeq(S \ {m})

\* [...new Set(msg.signatures)].length
UniqueSignatures(sigs) == Cardinality({sigs[k] : k \in DOMAIN sigs})

\* Array.from(map.keys())
Keys(conv) == [k \in DOMAIN conv |-> conv[k].value]
KeySet(conv) == {conv[k].value : k \in DOMAIN conv}

\* the node with the given id in a node table (arrays are 0-based in the code)
NodeAt(tbl, id) == tbl[id + 1]
HasNode(tbl, id) == id + 1 \in DOMAIN tbl

RECURSIVE Flatten(_)
Flatten(ss) == IF ss = <<>> THEN <<>> ELSE Head(ss) \o Flatten(Tail(ss))

(* ------------------------- configuration controls ---------------------- *)
\* useEffect on numNodes: drop ids outside the range
FilterIds(byz, n) == {id \in byz : id < n}

\* useEffect on numByzantine: keep the lowest numByzantine ids
TrimIds(byz, f) ==
    IF Cardinality(byz) <= f THEN byz
    ELSE LET arr == SubSeq(SortedSeq(byz), 1, f)
         IN  {arr[k] : k \in DOMAIN arr}

RECURSIVE PadIds(_, _, _, _)
\* add ids idx, idx+1, ... while the set is smaller than f
PadIds(byz, f, n, idx) ==
    IF Cardinality(byz) < f /\ idx < n
    THEN PadIds(byz \cup {idx}, f, n, idx + 1)
    ELSE byz

handleNodesChange_NoClamp(delta) ==
    /\ ~isProtocolRunning
    /\ IF delta < 0 THEN numNodes > MinNumNodes ELSE numNodes < MaxNumNodes
    /\ LET newValue == Max(MinNumNodes, Min(MaxNumNodes, numNodes + delta))
       IN  /\ numNodes' = newValue
           /\ numByzantine' = numByzantine
           /\ byzantineNodes' =
                  TrimIds(FilterIds(byzantineNodes, newValue), numByzantine)
    /\ UNCHANGED <<senderValue, currentRound, nodes, allMessages,
                   isProtocolRunning, protocolComplete, timers, runId,
                   executedRounds>>

handleNodesChange(delta) ==
    /\ ~isProtocolRunning
    /\ IF delta < 0 THEN numNodes > MinNumNodes ELSE numNodes < MaxNumNodes
    /\ LET newValue == Max(MinNumNodes, Min(MaxNumNodes, numNodes + delta))
           newByz   == IF numByzantine > newValue THEN newValue ELSE numByzantine
       IN  /\ numNodes' = newValue
           /\ numByzantine' = newByz
           /\ byzantineNodes' = TrimIds(FilterIds(byzantineNodes, newValue), newByz)
    /\ UNCHANGED <<senderValue, currentRound, nodes, allMessages,
                   isProtocolRunning, protocolComplete, timers, runId,
                   executedRounds>>

handleByzantineChange(delta) ==
    /\ ~isProtocolRunning
    /\ IF delta < 0 THEN numByzantine > 0 ELSE numByzantine < numNodes
    /\ LET newValue == Max(0, Min(numNodes, numByzantine + delta))
           cleared  == IF newValue < Cardinality(byzantineNodes)
                       THEN {} ELSE byzantineNodes
       IN  /\ numByzantine' = newValue
           /\ byzantineNodes' = TrimIds(cleared, newValue)
    /\ UNCHANGED <<numNodes, senderValue, currentRound, nodes, allMessages,
                   isProtocolRunning, protocolComplete, timers, runId,
                   executedRounds>>

toggleByzantine(nodeId) ==
    /\ ~isProtocolRunning
    /\ numByzantine > 0
    /\ nodeId \in 0 .. numNodes - 1
    /\ LET isSelected == nodeId \in byzantineNodes
           canSelect  == isSelected \/ Cardinality(byzantineNodes) < numByzantine
       IN  /\ canSelect
           /\ byzantineNodes' = IF isSelected
                                THEN byzantineNodes \ {nodeId}
                                ELSE byzantineNodes \cup {nodeId}
    /\ UNCHANGED <<numNodes, numByzantine, senderValue, currentRound, nodes,
                   allMessages, isProtocolRunning, protocolComplete, timers,
                   runId, executedRounds>>

(* ------------------------------ messages ------------------------------- *)
Msg(v, sigs, from, to, r) ==
    [value |-> v, signatures |-> sigs, fromNode |-> from, toNode |-> to,
     round |-> r]

\* the pending callback of a setTimeout: kind names the callback, the other
\* fields are the values its closure captured; run is the run that scheduled it
Timer(kind, tbl, n, sv, run) ==
    [kind |-> kind, nodes |-> tbl, numNodes |-> n, senderValue |-> sv,
     run |-> run]

(* --------------------------- initializeProtocol ------------------------ *)
\* setByzantineNodes(prev => ...) in initializeProtocol
InitByzantineNodes(byz, f, n) ==
    IF Cardinality(byz) = f THEN byz
    ELSE PadIds(FilterIds(byz, n), f, n, 0)

ByzSnapshot_SkipSender(byz, f, n) == PadIds(FilterIds(byz, n), f, n, 1)

\* byzSnapshot in initializeProtocol
ByzSnapshot(byz, f, n) == PadIds(FilterIds(byz, n), f, n, 0)

InitialNodes(n, byzSnapshot) ==
    [k \in 1 .. n |->
        [id |-> k - 1,
         isSender |-> (k - 1 = 0),
         isByzantine |-> (k - 1 \in byzSnapshot),
         convincedValues |-> <<>>,
         receivedMessages |-> <<>>,
         finalDecision |-> Null]]

initializeProtocol ==
    /\ ~isProtocolRunning
    /\ Len(timers) < MaxTimers
    /\ LET byzSnapshot  == ByzSnapshot(byzantineNodes, numByzantine, numNodes)
           initialNodes == InitialNodes(numNodes, byzSnapshot)
       IN  /\ byzantineNodes' =
                  InitByzantineNodes(byzantineNodes, numByzantine, numNodes)
           /\ nodes' = initialNodes
           /\ timers' = Append(timers,
                  Timer("executeRound0", initialNodes, numNodes, senderValue,
                        runId + 1))
    /\ allMessages' = <<>>
    /\ currentRound' = 0
    /\ protocolComplete' = FALSE
    /\ isProtocolRunning' = TRUE
    /\ runId' = runId + 1
    /\ executedRounds' = <<>>
    /\ UNCHANGED <<numNodes, numByzantine, senderValue, setupClicks>>

(* ------------------------------ executeRound0 -------------------------- *)
ValueToSend_AlwaysDeviate(senderIsByzantine, i, sv) ==
    IF i = 1 THEN sv + 1 ELSE sv

ValueToSend_NeverDeviate(senderIsByzantine, i, sv) == sv

\* value the sender sends to node i in the direct broadcast
ValueToSend(senderIsByzantine, i, sv) ==
    IF senderIsByzantine
    THEN IF i = 1 THEN sv + 1 ELSE sv
    ELSE sv

\* newMessages of executeRound0: one direct message per non-sender node
Round0Messages(initialNodes, n, sv) ==
    [k \in 1 .. n - 1 |->
        Msg(ValueToSend(NodeAt(initialNodes, 0).isByzantine, k, sv),
            <<0>>, 0, k, 0)]

\* updatedNodes of executeRound0
Round0Nodes(initialNodes, newMessages, sv) ==
    [k \in DOMAIN initialNodes |->
        LET node == initialNodes[k]
            forMe == SelectSeq(newMessages, LAMBDA m : m.toNode = node.id)
        IN  IF node.id = 0
            THEN [node EXCEPT !.convincedValues =
                                  <<[value |-> sv, round |-> 0]>>]
            ELSE IF forMe # <<>>
            THEN [node EXCEPT
                    !.receivedMessages = <<Head(forMe)>>,
                    !.convincedValues =
                        <<[value |-> Head(forMe).value, round |-> 0]>>]
            ELSE node]

\* first timer of a run: direct delivery of round 0
executeRound0 ==
    /\ timers # <<>>
    /\ Head(timers).kind = "executeRound0"
    /\ \E tm \in {Head(timers)} :
       \E newMessages \in
              {Round0Messages(tm.nodes, tm.numNodes, tm.senderValue)} :
       \E updatedNodes \in
              {Round0Nodes(tm.nodes, newMessages, tm.senderValue)} :
           /\ allMessages' = newMessages
           /\ nodes' = updatedNodes
           /\ timers' = Append(Tail(timers),
                  Timer("round0Echo", updatedNodes, tm.numNodes,
                        tm.senderValue, tm.run))
    /\ UNCHANGED <<config, currentRound, isProtocolRunning, protocolComplete,
                   runId, executedRounds, setupClicks>>

\* the echoes one node sends in the round-0 echo step
Round0EchoesOf(node, n) ==
    IF node.convincedValues = <<>> THEN <<>>
    ELSE LET value == Keys(node.convincedValues)[1]
             dests == SelectSeq([k \in 1 .. n |-> k - 1],
                                LAMBDA i : i # node.id)
         IN  [k \in DOMAIN dests |->
                 Msg(value,
                     IF node.id = 0 THEN <<0>> ELSE <<0, node.id>>,
                     node.id, dests[k], 0)]

Round0Echoes(updatedNodes, n) ==
    Flatten([k \in DOMAIN updatedNodes |-> Round0EchoesOf(updatedNodes[k], n)])

\* prevNodes.map(node => ({...node, receivedMessages: [..., ...filter]}))
Deliver(prevNodes, msgs) ==
    [k \in DOMAIN prevNodes |->
        [prevNodes[k] EXCEPT !.receivedMessages =
            @ \o SelectSeq(msgs, LAMBDA m : m.toNode = prevNodes[k].id)]]

\* second timer of a run: every node echoes its round-0 value
round0Echo ==
    /\ timers # <<>>
    /\ Head(timers).kind = "round0Echo"
    /\ \E round0Echoes \in
              {Round0Echoes(Head(timers).nodes, Head(timers).numNodes)} :
           /\ allMessages' = allMessages \o round0Echoes
           /\ nodes' = Deliver(nodes, round0Echoes)
    /\ currentRound' = 1
    /\ timers' = Tail(timers)
    /\ UNCHANGED <<config, isProtocolRunning, protocolComplete, runId,
                   executedRounds, setupClicks>>

(* ----------------------------- completeProtocol ------------------------ *)
\* the decisions completeProtocol may give a node (Math.random picks any
\* member of a Byzantine node's multi-valued conviction set)
\* a decision rule under which an honest party keeps its first conviction
Decisions_FirstConviction(node) ==
    LET convincedValues == Keys(node.convincedValues)
    IN  IF Len(convincedValues) >= 1 THEN {convincedValues[1]} ELSE {Null}

Decisions(node) ==
    LET convincedValues == Keys(node.convincedValues)
    IN  IF node.isByzantine
        THEN IF Len(convincedValues) = 1 THEN {convincedValues[1]}
             ELSE IF Len(convincedValues) > 1
                  THEN {convincedValues[k] : k \in DOMAIN convincedValues}
                  ELSE {Null}
        ELSE IF Len(convincedValues) = 1 THEN {convincedValues[1]}
             ELSE {Null}

RECURSIVE FinalNodes(_)
\* the node tables completeProtocol may produce from the table it closed over
FinalNodes(tbl) ==
    IF tbl = <<>> THEN {<<>>}
    ELSE {<<[Head(tbl) EXCEPT !.finalDecision = d]>> \o rest :
              d \in Decisions(Head(tbl)), rest \in FinalNodes(Tail(tbl))}

\* timer scheduled by the last conviction round
completeProtocol ==
    /\ timers # <<>>
    /\ Head(timers).kind = "completeProtocol"
    /\ \E finalNodes \in FinalNodes(Head(timers).nodes) :
           nodes' = finalNodes
    /\ protocolComplete' = TRUE
    /\ timers' = Tail(timers)
    /\ UNCHANGED <<config, currentRound, allMessages, isProtocolRunning,
                   runId, executedRounds, setupClicks>>

(* ----------------------------- executeNextRound ------------------------ *)
EnoughSignatures_AnyRound(sigs, t) == UniqueSignatures(sigs) >= 1

\* the conviction rule's threshold: at round t a chain needs t+1 unique signers
EnoughSignatures(sigs, t) == UniqueSignatures(sigs) >= t + 1

\* the entry convincedValues.set(value, t) adds
Conviction(value, t) == [value |-> value, round |-> t]

\* the last conviction round schedules completeProtocol instead of advancing
IsLastRound(t, f) == t >= f + 1

RECURSIVE ConvincePass(_, _, _, _, _)
\* first pass for one node: the conviction map after examining the messages
\* msgs[k], msgs[k+1], ... in inbox order
ConvincePass(conv, msgs, k, t, isByz) ==
    IF k > Len(msgs) THEN conv
    ELSE LET msg == msgs[k]
         IN  IF msg.value \in KeySet(conv)
             THEN ConvincePass(conv, msgs, k + 1, t, isByz)
             ELSE IF isByz
             THEN ConvincePass(conv, msgs, k + 1, t, isByz)
             ELSE IF msg.signatures[1] # 0
             THEN ConvincePass(conv, msgs, k + 1, t, isByz)
             ELSE IF EnoughSignatures(msg.signatures, t)
             THEN ConvincePass(
                      Append(conv, Conviction(msg.value, t)),
                      msgs, k + 1, t, isByz)
             ELSE ConvincePass(conv, msgs, k + 1, t, isByz)

Convinced_NewestOnly(tbl, t) ==
    [k \in DOMAIN tbl |->
        ConvincePass(tbl[k].convincedValues, tbl[k].receivedMessages,
                     Max(1, Len(tbl[k].receivedMessages)), t,
                     tbl[k].isByzantine)]

\* conviction maps of all nodes after the first pass of round t
Convinced(tbl, t) ==
    [k \in DOMAIN tbl |->
        ConvincePass(tbl[k].convincedValues, tbl[k].receivedMessages, 1, t,
                     tbl[k].isByzantine)]

\* nodesThatWillEcho.has(node.id) || node.isByzantine
ShouldEcho(node, newConv) ==
    \/ node.isByzantine
    \/ /\ newConv # node.convincedValues
       /\ ~node.isByzantine

\* the messages node sends for one value in the second pass
EchoesOfValue(node, value, n, t) ==
    LET found == SelectSeq(node.receivedMessages,
                     LAMBDA m : m.value = value /\ m.signatures[1] = 0)
        dests == SelectSeq([k \in 1 .. n |-> k - 1], LAMBDA i : i # node.id)
        signatures == IF node.id = 0 THEN <<0>>
                      ELSE IF found # <<>>
                           THEN Append(Head(found).signatures, node.id)
                           ELSE <<0, node.id>>
    IN  IF found # <<>> \/ node.id = 0
        THEN [k \in DOMAIN dests |->
                 Msg(value, signatures, node.id, dests[k], t)]
        ELSE <<>>

\* all messages of the second pass, in the order the code pushes them
RoundEchoes(tbl, conv, n, t) ==
    Flatten([k \in DOMAIN tbl |->
        IF ShouldEcho(tbl[k], conv[k])
        THEN Flatten([j \in DOMAIN conv[k] |->
                 EchoesOfValue(tbl[k], conv[k][j].value, n, t)])
        ELSE <<>>])

\* updatedNodes before the echoes are pushed: copies with the new convictions
WithConvinced(tbl, conv) ==
    [k \in DOMAIN tbl |-> [tbl[k] EXCEPT !.convincedValues = conv[k]]]

\* updatedNodes[i] is undefined for an addressee outside the node table:
\* the push throws before any state is set
PushThrows(tbl, echoes) ==
    \E k \in DOMAIN echoes : ~HasNode(tbl, echoes[k].toNode)

\* Next Step button
executeNextRound ==
    /\ isProtocolRunning
    /\ ~protocolComplete
    /\ ~(currentRound > numByzantine + 1)
    /\ LET t == currentRound
       IN  IF t > numByzantine + 1
           THEN /\ IF ~protocolComplete
                   THEN /\ \E finalNodes \in FinalNodes(nodes) :
                               nodes' = finalNodes
                        /\ protocolComplete' = TRUE
                   ELSE UNCHANGED <<nodes, protocolComplete>>
                /\ UNCHANGED <<config, currentRound, allMessages,
                               isProtocolRunning, timers, runId,
                               executedRounds, setupClicks>>
           ELSE \E conv \in {Convinced(nodes, t)} :
                \E echoes \in {RoundEchoes(nodes, conv, numNodes, t)} :
                \E updatedNodes \in {Deliver(WithConvinced(nodes, conv), echoes)} :
                    IF PushThrows(nodes, echoes)
                    THEN UNCHANGED vars
                    ELSE /\ allMessages' = allMessages \o echoes
                         /\ nodes' = updatedNodes
                         /\ executedRounds' = Append(executedRounds, t)
                         /\ IF IsLastRound(t, numByzantine)
                            THEN /\ Len(timers) < MaxTimers
                                 /\ timers' = Append(timers,
                                        Timer("completeProtocol", nodes,
                                              numNodes, senderValue, runId))
                                 /\ UNCHANGED currentRound
                            ELSE /\ currentRound' = t + 1
                                 /\ UNCHANGED timers
                         /\ UNCHANGED <<config, isProtocolRunning,
                                        protocolComplete, runId, setupClicks>>

(* ------------------------------ resetProtocol -------------------------- *)
resetProtocol ==
    /\ isProtocolRunning
    /\ setupClicks < MaxSetupClicks
    /\ setupClicks' = setupClicks + 1
    /\ isProtocolRunning' = FALSE
    /\ protocolComplete' = FALSE
    /\ currentRound' = 0
    /\ nodes' = <<>>
    /\ allMessages' = <<>>
    /\ executedRounds' = <<>>
    /\ UNCHANGED <<config, timers, runId>>

(* --------------------------- ProtocolProperties ------------------------ *)
\* nodes.filter(n => !n.isByzantine)
HonestNodes(tbl) == SelectSeq(tbl, LAMBDA n : ~n.isByzantine)

\* honestNodes.map(n => n.finalDecision)
DecisionsOf(honestNodes) ==
    [k \in DOMAIN honestNodes |-> honestNodes[k].finalDecision]

\* [...new Set(arr)]
UniqueOf(arr) == {arr[k] : k \in DOMAIN arr}

checkTermination(complete) ==
    IF ~complete THEN "pending" ELSE "satisfied"

checkAgreement_NullCounts(tbl, complete) ==
    IF ~complete THEN "pending"
    ELSE IF Cardinality(UniqueOf(DecisionsOf(HonestNodes(tbl)))) <= 1
         THEN "satisfied" ELSE "violated"

checkAgreement(tbl, complete) ==
    IF ~complete THEN "pending"
    ELSE LET honestNodes      == HonestNodes(tbl)
             decisions        == DecisionsOf(honestNodes)
             uniqueDecisions  == UniqueOf(decisions)
             nonNullDecisions == SelectSeq(decisions, LAMBDA d : d # Null)
             uniqueNonNull    == UniqueOf(nonNullDecisions)
         IN  IF Len(honestNodes) = 0 THEN "satisfied"
             ELSE IF Cardinality(uniqueDecisions) <= 1 THEN "satisfied"
             ELSE IF Cardinality(uniqueNonNull) > 1 THEN "violated"
             ELSE "satisfied"

checkValidity(tbl, sv, byz, complete) ==
    IF ~complete THEN "pending"
    ELSE LET senderIsByzantine == 0 \in byz
             honestNodes       == HonestNodes(tbl)
             allDecidedOnSenderValue ==
                 \A k \in DOMAIN honestNodes :
                     honestNodes[k].finalDecision = sv
         IN  IF senderIsByzantine THEN "na"
             ELSE IF Len(honestNodes) = 0 THEN "satisfied"
             ELSE IF allDecidedOnSenderValue THEN "satisfied"
             ELSE "violated"

(* ----------------------------- PropertiesPanel ------------------------- *)
\* honestNodes.filter(n => n.id !== 0).map(n => n.finalDecision)
PanelHonestDecisions(tbl) ==
    DecisionsOf(SelectSeq(HonestNodes(tbl), LAMBDA n : n.id # 0))

\* agreementSatisfied
PanelAgreement(tbl) ==
    Cardinality(UniqueOf(PanelHonestDecisions(tbl))) <= 1

\* validitySatisfied
PanelValidity(tbl, sv, byz) ==
    LET senderIsByzantine == 0 \in byz
        honestDecisions   == PanelHonestDecisions(tbl)
    IN  IF ~senderIsByzantine
        THEN \A k \in DOMAIN honestDecisions :
                 honestDecisions[k] = sv \/ honestDecisions[k] = Null
        ELSE TRUE

(* ------------------------------ specification -------------------------- *)
Init ==
    /\ numNodes = InitNumNodes
    /\ numByzantine = InitNumByzantine
    /\ senderValue = InitSenderValue
    /\ currentRound = 0
    /\ nodes = <<>>
    /\ allMessages = <<>>
    /\ isProtocolRunning = FALSE
    /\ protocolComplete = FALSE
    /\ byzantineNodes = {1}
    /\ timers = <<>>
    /\ runId = 0
    /\ executedRounds = <<>>
    /\ setupClicks = 0

\* a click on a configuration control, counted against the clicks explored
SetupClick(handler) ==
    /\ setupClicks < MaxSetupClicks
    /\ setupClicks' = setupClicks + 1
    /\ handler

Next ==
    \/ \E delta \in {0 - 1, 1} : SetupClick(handleNodesChange(delta))
    \/ \E delta \in {0 - 1, 1} : SetupClick(handleByzantineChange(delta))
    \/ \E nodeId \in 0 .. numNodes - 1 : SetupClick(toggleByzantine(nodeId))
    \/ initializeProtocol
    \/ executeRound0
    \/ round0Echo
    \/ executeNextRound
    \/ completeProtocol
    \/ resetProtocol

Spec == Init /\ [][Next]_vars

\* a pending timer callback runs (the event loop runs them in order)
timerFires == executeRound0 \/ round0Echo \/ completeProtocol

\* the same behaviours when every pending timer eventually fires and the
\* driver clicks Next Step whenever it stays enabled
LiveSpec ==
    /\ Spec
    /\ WF_vars(timerFires)
    /\ WF_vars(executeNextRound)

\* the configuration controls alone, with any number of clicks
ConfigNext ==
    \/ \E delta \in {0 - 1, 1} :
          handleNodesChange(delta) /\ UNCHANGED setupClicks
    \/ \E delta \in {0 - 1, 1} :
          handleByzantineChange(delta) /\ UNCHANGED setupClicks
    \/ \E nodeId \in 0 .. numNodes - 1 :
          toggleByzantine(nodeId) /\ UNCHANGED setupClicks

ConfigSpec == Init /\ [][ConfigNext]_vars

(* ------------------------------ properties ----------------------------- *)
Completed == isProtocolRunning /\ protocolComplete
Honest(tbl) == {k \in DOMAIN tbl : ~tbl[k].isByzantine}
NonSender(tbl) == {k \in DOMAIN tbl : tbl[k].id # 0}
Entries(conv) == {conv[k] : k \in DOMAIN conv}
SameRun == isProtocolRunning /\ isProtocolRunning' /\ runId' = runId
RoundsOneTo(m) == [k \in 1 .. m |-> k]

\* C1 (Agreement): in every completed run all honest parties hold the same
\* final decision (the same value, or all bottom).
C1_Agreement ==
    Completed =>
        \A i, j \in Honest(nodes) :
            nodes[i].finalDecision = nodes[j].finalDecision

\* C2 (Validity): in every completed run with an honest sender every honest
\* party's final decision equals senderValue.
C2_Validity ==
    (Completed /\ HasNode(nodes, 0) /\ ~NodeAt(nodes, 0).isByzantine) =>
        \A i \in Honest(nodes) : nodes[i].finalDecision = senderValue

\* C3 (Termination bound): when a run is complete, the conviction rounds
\* executed since initializeProtocol are exactly the rounds 1, ..., f+1.
C3_TerminationBound ==
    Completed => executedRounds = RoundsOneTo(numByzantine + 1)

\* C4 (Liveness): with every timer firing and Next Step clicked while
\* enabled, a started run eventually is complete with a node table holding
\* a decision entry for each of the n parties, unless Reset is clicked.
C4_Liveness ==
    isProtocolRunning ~>
        \/ protocolComplete /\ Len(nodes) = numNodes
        \/ ~isProtocolRunning

\* C5 (Conviction monotonicity): within a run, every entry value -> round of
\* every party's convincedValues is still there after every step.
C5_ConvictionMonotone ==
    [][SameRun =>
        \A k \in DOMAIN nodes :
            /\ k \in DOMAIN nodes'
            /\ Entries(nodes[k].convincedValues)
                   \subseteq Entries(nodes'[k].convincedValues)]_vars

\* a sender-first message for value v with at least t+1 unique signers
Justifies(m, v, t) ==
    /\ m.value = v
    /\ m.signatures[1] = 0
    /\ UniqueSignatures(m.signatures) >= t + 1

Justified(node) ==
    \A e \in Entries(node.convincedValues) :
        \E k \in DOMAIN node.receivedMessages :
            Justifies(node.receivedMessages[k], e.value, e.round)

\* C6 as stated (Round-signature bound, all parties): whenever a party's
\* convincedValues records v with round t, its inbox holds a sender-first
\* message for v with at least t+1 unique signers.
C6_RoundSignatureBoundAll ==
    \A k \in DOMAIN nodes : Justified(nodes[k])

\* C6 amended (Round-signature bound, every party other than the sender):
\* whenever a non-sender party's convincedValues records v with round t, its
\* inbox holds a sender-first message for v with at least t+1 unique signers.
C6_RoundSignatureBound ==
    \A k \in NonSender(nodes) : Justified(nodes[k])

C6_Witness ==
    \E k \in NonSender(nodes) :
        /\ ~nodes[k].isByzantine
        /\ \E e \in Entries(nodes[k].convincedValues) : e.round >= 1
        /\ \E e \in Entries(nodes[k].convincedValues) : e.round = 0

\* the decision rule for an honest party
RuleDecision(node) ==
    IF Cardinality(KeySet(node.convincedValues)) = 1
    THEN CHOOSE v \in KeySet(node.convincedValues) : TRUE
    ELSE Null

\* C7 (Decision rule): in every completed run each honest party's
\* finalDecision is the single key of its convincedValues when there is
\* exactly one, and bottom otherwise.
C7_DecisionRule ==
    Completed =>
        \A k \in Honest(nodes) : nodes[k].finalDecision = RuleDecision(nodes[k])

DecisionTable(tbl) == [k \in DOMAIN tbl |-> tbl[k].finalDecision]

\* C8 (Decisions set at most once): no decision is set before completion,
\* and once a run is complete no later step of the run changes a decision.
C8_DecisionsSetOnce ==
    /\ [](~protocolComplete =>
            \A k \in DOMAIN nodes : nodes[k].finalDecision = Null)
    /\ [][(SameRun /\ protocolComplete) =>
            DecisionTable(nodes') = DecisionTable(nodes)]_vars

\* a timer of the current run that belongs to round 0
Round0Pending ==
    \E k \in DOMAIN timers :
        /\ timers[k].run = runId
        /\ timers[k].kind \in {"executeRound0", "round0Echo"}

\* C10 (Rounds strictly sequential): no conviction round executes while the
\* round-0 delivery or the round-0 echo step of the run is still pending,
\* and the round counter never decreases within a run.
C10_RoundsSequential ==
    [][/\ (SameRun /\ executedRounds' # executedRounds) => ~Round0Pending
       /\ SameRun => currentRound' >= currentRound]_vars

\* the pending callback that runs next was scheduled by an earlier run, or by
\* a run that has been reset
StaleTimerFires ==
    /\ timerFires
    /\ ~isProtocolRunning \/ Head(timers).run # runId

\* C11 (Cross-run isolation): between resetProtocol and the next
\* initializeProtocol the node table and message log are empty, the round
\* counter is 0 and both flags are false; and no step scheduled by an earlier
\* run changes the node table, message log, round counter or completion flag.
C11_CrossRunIsolation ==
    /\ [](~isProtocolRunning =>
            /\ nodes = <<>>
            /\ allMessages = <<>>
            /\ currentRound = 0
            /\ ~protocolComplete)
    /\ [][StaleTimerFires =>
            UNCHANGED <<nodes, allMessages, currentRound,
                        protocolComplete>>]_vars

\* the final decisions of the honest parties of a node table
HonestDecisions(tbl) == {tbl[k].finalDecision : k \in Honest(tbl)}

C13_ValidityVerifier ==
    (Completed /\ HasNode(nodes, 0)) =>
        checkValidity(nodes, senderValue, byzantineNodes, protocolComplete) =
            IF NodeAt(nodes, 0).isByzantine THEN "na"
            ELSE IF \A d \in HonestDecisions(nodes) : d = senderValue
                 THEN "satisfied" ELSE "violated"

\* C14 (Termination verifier): checkTermination is 'pending' while the run
\* is not complete and 'satisfied' once it is; and whenever it is
\* 'satisfied' the node table has n entries, one per party of the current
\* run, each holding a decision completeProtocol produces for it.
C14_TerminationVerifier ==
    /\ ~protocolComplete => checkTermination(protocolComplete) = "pending"
    /\ protocolComplete => checkTermination(protocolComplete) = "satisfied"
    /\ checkTermination(protocolComplete) = "satisfied" =>
          /\ isProtocolRunning
          /\ Len(nodes) = numNodes
          /\ \A k \in DOMAIN nodes :
                /\ nodes[k].id = k - 1
                /\ nodes[k].isByzantine =
                       (k - 1 \in ByzSnapshot(byzantineNodes, numByzantine,
                                              numNodes))
                /\ nodes[k].finalDecision \in Decisions(nodes[k])

\* a completed run with no honest party or exactly one
DegenerateHonestSet == Completed /\ Cardinality(Honest(nodes)) <= 1

\* C15 (Degenerate honest sets): a run that completes with no honest party
\* (f = n) or exactly one has executed exactly the rounds 1, ..., f+1, its
\* Agreement verdict is 'satisfied', and its Validity verdict is 'na' when
\* party 0 is Byzantine.
C15_DegenerateHonestSets ==
    DegenerateHonestSet =>
        /\ executedRounds = RoundsOneTo(numByzantine + 1)
        /\ checkAgreement(nodes, protocolComplete) = "satisfied"
        /\ (HasNode(nodes, 0) /\ NodeAt(nodes, 0).isByzantine) =>
               checkValidity(nodes, senderValue, byzantineNodes,
                             protocolComplete) = "na"

\* the ids a node table marks Byzantine
Marked(tbl) == {tbl[k].id : k \in {j \in DOMAIN tbl : tbl[j].isByzantine}}

\* the m lowest-numbered members of S
LowestOf(S, m) == {x \in S : Cardinality({y \in S : y < x}) < m}

\* C16 (Byzantine-set repair by padding): the node table initializeProtocol
\* creates marks exactly f parties Byzantine; every id selected before the
\* run (and < n) is among them; and when fewer than f ids were selected,
\* the ids added are the lowest-numbered ids that were not selected.
C16_PaddingRepair ==
    [][initializeProtocol =>
        LET selected == FilterIds(byzantineNodes, numNodes)
            marked   == Marked(nodes')
            missing  == numByzantine - Cardinality(selected)
        IN  /\ Cardinality(marked) = numByzantine
            /\ selected \subseteq marked
            /\ missing > 0 =>
                   marked \ selected =
                       LowestOf((0 .. numNodes - 1) \ selected, missing)]_vars

\* a run started right after raising f from 1 to 2 with the initial
\* selection {1}: id 0 was added to the Byzantine set
C16_Witness ==
    /\ isProtocolRunning
    /\ setupClicks = 1
    /\ numByzantine = 2
    /\ nodes # <<>>
    /\ Marked(nodes) = {0, 1}

\* C17 (Byzantine-set repair by trimming): whenever f is lowered below the
\* number of selected ids, the Byzantine set the next run uses consists of
\* the f lowest-numbered ids of the set that was selected.
C17_TrimmingRepair ==
    [][(~isProtocolRunning /\ numByzantine' < Cardinality(byzantineNodes)) =>
        ByzSnapshot(byzantineNodes', numByzantine', numNodes') =
            LowestOf(byzantineNodes, numByzantine')]_vars

\* C18 (Run parameters are immutable during a run): from initializeProtocol
\* until resetProtocol no step changes numNodes, numByzantine, senderValue
\* or byzantineNodes, the node table has exactly n entries with
\* nodes[i].id = i, and no party's isByzantine flag changes.
C18_RunParametersImmutable ==
    /\ [](isProtocolRunning =>
            /\ Len(nodes) = numNodes
            /\ \A k \in DOMAIN nodes : nodes[k].id = k - 1)
    /\ [][SameRun =>
            /\ config' = config
            /\ \A k \in DOMAIN nodes :
                  /\ k \in DOMAIN nodes'
                  /\ nodes'[k].isByzantine = nodes[k].isByzantine]_vars

\* a step in which the body of a conviction round ran
RoundStep == executeNextRound /\ executedRounds' # executedRounds

\* the values of the messages in an inbox
InboxValues(node) ==
    {node.receivedMessages[k].value : k \in DOMAIN node.receivedMessages}

NewMessages ==
    {allMessages'[k] : k \in Len(allMessages) + 1 .. Len(allMessages')}

\* m is the echo by party i of an inbox message that justifies v at round t
EchoOfConvincing(m, node, v, t) ==
    \E j \in DOMAIN node.receivedMessages :
        /\ Justifies(node.receivedMessages[j], v, t)
        /\ m.signatures = Append(node.receivedMessages[j].signatures, node.id)

\* C20 (Echo chain construction): every message of round t >= 1 that an
\* honest non-sender party sends for a value it became convinced of in that
\* round carries the chain of an inbox message that convinced it (sender
\* first, value v, at least t+1 unique signers) extended by the party's id,
\* and so has at least t+2 unique signers; every message the sender sends
\* carries the chain [0].
C20_EchoChain ==
    /\ [][(RoundStep /\ currentRound >= 1) =>
            \A m \in NewMessages :
                \A k \in Honest(nodes) \cap NonSender(nodes) :
                    (/\ m.fromNode = nodes[k].id
                     /\ m.value \in KeySet(nodes'[k].convincedValues)
                     /\ m.value \notin KeySet(nodes[k].convincedValues)) =>
                        /\ EchoOfConvincing(m, nodes[k], m.value, currentRound)
                        /\ UniqueSignatures(m.signatures) >= currentRound + 2]_vars
    /\ [](\A k \in DOMAIN allMessages :
            allMessages[k].fromNode = 0 => allMessages[k].signatures = <<0>>)

\* the messages a step appended to the message log, in log order
NewMessageSeq == SubSeq(allMessages', Len(allMessages) + 1, Len(allMessages'))

\* how many of the messages of msgs go from party i to party j with value v
CountSent(msgs, i, j, v) ==
    Cardinality({x \in DOMAIN msgs :
                    /\ msgs[x].fromNode = i
                    /\ msgs[x].toNode = j
                    /\ msgs[x].value = v})

\* party k gained a conviction in the step
NewlyConvinced(k) ==
    KeySet(nodes'[k].convincedValues) # KeySet(nodes[k].convincedValues)

\* C21 (Who echoes): in conviction round t >= 1 a party sends messages
\* tagged t exactly when it is Byzantine or became convinced of some value
\* in round t; such a party sends, for every value of its conviction set,
\* exactly one message to each of the n-1 other parties and nothing else;
\* an honest party without a new conviction sends nothing.
C21_WhoEchoes ==
    [][(RoundStep /\ currentRound >= 1) =>
        /\ \A x \in DOMAIN NewMessageSeq :
              /\ NewMessageSeq[x].round = currentRound
              /\ \E k \in DOMAIN nodes :
                    nodes[k].id = NewMessageSeq[x].fromNode
        /\ \A k \in DOMAIN nodes :
              LET i     == nodes[k].id
                  sends == \E x \in DOMAIN NewMessageSeq :
                               NewMessageSeq[x].fromNode = i
              IN  /\ sends <=> (nodes[k].isByzantine \/ NewlyConvinced(k))
                  /\ sends =>
                        \A j \in (0 .. numNodes - 1) \ {i} :
                            \A v \in KeySet(nodes'[k].convincedValues)
                                        \cup {NewMessageSeq[x].value :
                                                 x \in DOMAIN NewMessageSeq} :
                                CountSent(NewMessageSeq, i, j, v) =
                                    IF v \in KeySet(nodes'[k].convincedValues)
                                    THEN 1 ELSE 0]_vars

\* the direct message of round 0 to party i with value v
DirectMessage(i, v) == Msg(v, <<0>>, 0, i, 0)

\* after the step the log is the direct broadcast in which party i gets
\* value[i], and every recipient holds its message and is convinced of its
\* value at round 0
Round0Delivered(n, value) ==
    /\ Len(allMessages') = n - 1
    /\ Len(nodes') = n
    /\ \A i \in 1 .. n - 1 :
          /\ allMessages'[i] = DirectMessage(i, value[i])
          /\ NodeAt(nodes', i).receivedMessages =
                 <<DirectMessage(i, value[i])>>
          /\ NodeAt(nodes', i).convincedValues = <<Conviction(value[i], 0)>>

\* the round-0 delivery step of a run whose sender is honest / Byzantine
Round0StepHonest ==
    executeRound0 /\ ~NodeAt(Head(timers).nodes, 0).isByzantine
Round0StepByzantine ==
    executeRound0 /\ NodeAt(Head(timers).nodes, 0).isByzantine

\* C22 (Round 0 with an honest sender): exactly one direct message is
\* emitted per non-sender party i, with value senderValue, chain [0], from
\* 0 to i, round 0; each recipient's inbox then holds that single message
\* and its conviction set is {senderValue -> 0}, and so is the sender's.
C22_Round0HonestSender ==
    [][Round0StepHonest =>
        LET n == Head(timers).numNodes
        IN  /\ Round0Delivered(n, [i \in 1 .. n - 1 |-> senderValue])
            /\ NodeAt(nodes', 0).convincedValues =
                   <<Conviction(senderValue, 0)>>]_vars

\* round 0 of the current run has just been delivered
Round0JustDelivered ==
    /\ isProtocolRunning
    /\ executedRounds = <<>>
    /\ Len(nodes) = numNodes
    /\ Len(allMessages) = numNodes - 1
    /\ \E k \in DOMAIN timers :
          timers[k].kind = "round0Echo" /\ timers[k].run = runId

C22_Witness ==
    /\ Round0JustDelivered
    /\ ~NodeAt(nodes, 0).isByzantine
    /\ \A k \in DOMAIN allMessages : allMessages[k].value = senderValue

\* C23 (Round 0 with a Byzantine sender): the direct broadcast sends
\* senderValue + 1 to party 1 and senderValue to every other non-sender
\* party, each with chain [0]; each recipient becomes convinced at round 0
\* of exactly the value it received.
C23_Round0ByzantineSender ==
    [][Round0StepByzantine =>
        LET n == Head(timers).numNodes
        IN  Round0Delivered(n, [i \in 1 .. n - 1 |->
                IF i = 1 THEN senderValue + 1 ELSE senderValue])]_vars

C23_Witness ==
    /\ Round0JustDelivered
    /\ NodeAt(nodes, 0).isByzantine
    /\ allMessages[1].value = senderValue + 1
    /\ NodeAt(nodes, 1).convincedValues = <<Conviction(senderValue + 1, 0)>>

\* the chain of a round-0 echo by party i
Round0Chain(i) == IF i = 0 THEN <<0>> ELSE <<0, i>>

\* how many times message m occurs in the sequence msgs
Occurrences(msgs, m) == Cardinality({x \in DOMAIN msgs : msgs[x] = m})

\* C24 (Round-0 echoes): when the round-0 echo step has run, every party
\* (sender included) has sent its round-0 convinced value once to each of
\* the n-1 other parties, the sender with chain [0] and party i with chain
\* [0, i], tagged round 0, in the log and in the addressee's inbox; the log
\* holds (n-1) + n(n-1) messages, each non-sender inbox n, the sender's
\* inbox n-1, and the round counter is 1.
C24_Round0Echoes ==
    [][round0Echo =>
        LET n == Head(timers).numNodes
        IN  /\ currentRound' = 1
            /\ Len(nodes') = n
            /\ Len(allMessages') = (n - 1) + n * (n - 1)
            /\ Len(NodeAt(nodes', 0).receivedMessages) = n - 1
            /\ \A i \in 1 .. n - 1 :
                  Len(NodeAt(nodes', i).receivedMessages) = n
            /\ \A i \in 0 .. n - 1 : \A j \in (0 .. n - 1) \ {i} :
                  \E v \in KeySet(NodeAt(nodes', i).convincedValues) :
                      LET echo == Msg(v, Round0Chain(i), i, j, 0)
                      IN  /\ Conviction(v, 0) \in
                                 Entries(NodeAt(nodes', i).convincedValues)
                          /\ Occurrences(NewMessageSeq, echo) = 1
                          /\ CountSent(NewMessageSeq, i, j, v) = 1
                          /\ Occurrences(NodeAt(nodes', j).receivedMessages,
                                         echo) >= 1]_vars

\* C25 (Rounds run once each, in increasing order): within a run the rounds
\* executed so far are 1, 2, ..., m for some m <= f+1: no round number is
\* executed twice, none is skipped, and none is executed after round f+1.
C25_RoundsOnceInOrder ==
    isProtocolRunning =>
        \E m \in 0 .. numByzantine + 1 : executedRounds = RoundsOneTo(m)

\* C26 (Round counter advance): after conviction round t, 1 <= t <= f+1,
\* has produced its echoes the round counter equals t+1; after the last
\* round it equals f+2.
C26_RoundCounterAdvance ==
    [][(RoundStep /\ currentRound >= 1) =>
        currentRound' = currentRound + 1]_vars

\* the messages of the log addressed to party i, in log order
AddressedTo(i) == SelectSeq(allMessages, LAMBDA m : m.toNode = i)

\* msgs1 and msgs2 hold the same messages the same number of times
SameMessages(msgs1, msgs2) ==
    \A m \in UniqueOf(msgs1) \cup UniqueOf(msgs2) :
        Occurrences(msgs1, m) = Occurrences(msgs2, m)

\* C27 (Log/inbox consistency): in every state of a run after round 0 has
\* completed, also after completeProtocol, every message of the log is
\* addressed to a party of the node table and occurs in that party's inbox
\* as often as in the log (once per emission), and every inbox message
\* occurs in the log.
C27_LogInboxConsistency ==
    (isProtocolRunning /\ ~Round0Pending) =>
        /\ \A x \in DOMAIN allMessages : HasNode(nodes, allMessages[x].toNode)
        /\ \A k \in DOMAIN nodes :
              SameMessages(AddressedTo(nodes[k].id), nodes[k].receivedMessages)

\* sequence p is a prefix of sequence q
IsPrefix(p, q) == Len(p) <= Len(q) /\ SubSeq(q, 1, Len(p)) = p

\* C28 (Inbox is append-only): within a run every step, the final round
\* and completeProtocol included, leaves every party's inbox as a prefix of
\* its new inbox: no message is removed or reordered.
C28_InboxAppendOnly ==
    [][SameRun =>
        \A k \in DOMAIN nodes :
            /\ k \in DOMAIN nodes'
            /\ IsPrefix(nodes[k].receivedMessages,
                        nodes'[k].receivedMessages)]_vars

\* every message of msgs has a chain without a repeated id that starts
\* with the sender's id
WellFormedChains(msgs) ==
    \A x \in DOMAIN msgs :
        /\ msgs[x].signatures # <<>>
        /\ msgs[x].signatures[1] = 0
        /\ UniqueSignatures(msgs[x].signatures) = Len(msgs[x].signatures)

\* C29 (Signature-chain invariant): in every reachable state every message
\* of the log and of every inbox has a chain in which no party id appears
\* twice and whose first entry is 0, chains of re-echoing Byzantine parties
\* included.
C29_SignatureChains ==
    /\ WellFormedChains(allMessages)
    /\ \A k \in DOMAIN nodes : WellFormedChains(nodes[k].receivedMessages)

\* the round tags of msgs never decrease along the sequence
NonDecreasingRounds(msgs) ==
    \A x, y \in DOMAIN msgs : x < y => msgs[x].round <= msgs[y].round

\* C30 (Round tags are non-decreasing): in every reachable state the round
\* tags of the messages of the log, read in log order, never decrease, and
\* likewise within every inbox.
C30_RoundTagsNonDecreasing ==
    /\ NonDecreasingRounds(allMessages)
    /\ \A k \in DOMAIN nodes : NonDecreasingRounds(nodes[k].receivedMessages)

\* C31 (Configuration invariant): in every state reachable through the
\* configuration controls, with the effects settled, 3 <= n <= 10,
\* 0 <= f <= n, every selected Byzantine id lies in [0, n) and at most f ids
\* are selected.
C31_ConfigurationInvariant ==
    /\ MinNumNodes <= numNodes /\ numNodes <= MaxNumNodes
    /\ 0 <= numByzantine /\ numByzantine <= numNodes
    /\ byzantineNodes \subseteq 0 .. numNodes - 1
    /\ Cardinality(byzantineNodes) <= numByzantine

\* the largest configuration: n at its maximum, f = n, every party selected
C31_Witness ==
    /\ numNodes = MaxNumNodes
    /\ numByzantine = numNodes
    /\ byzantineNodes = 0 .. numNodes - 1

\* C32 (The two property checkers agree): on the node table of every
\* completed run PropertiesPanel reports Agreement satisfied exactly when
\* checkAgreement returns 'satisfied', and, when party 0 is not in
\* byzantineNodes, it reports Validity satisfied exactly when checkValidity
\* returns 'satisfied'.
C32_CheckersAgree ==
    Completed =>
        /\ PanelAgreement(nodes) <=>
               checkAgreement(nodes, protocolComplete) = "satisfied"
        /\ 0 \notin byzantineNodes =>
               (PanelValidity(nodes, senderValue, byzantineNodes) <=>
                    checkValidity(nodes, senderValue, byzantineNodes,
                                  protocolComplete) = "satisfied")

\* the first run since page load, its conviction rounds executed after
\* round 0 finished, once each and in order
IntendedOrder ==
    /\ isProtocolRunning
    /\ runId = 1
    /\ \E m \in 0 .. numByzantine + 1 : executedRounds = RoundsOneTo(m)

ByzantineSender == HasNode(nodes, 0) /\ NodeAt(nodes, 0).isByzantine

ConvincedBy(node, v, t) ==
    \E e \in Entries(node.convincedValues) : e.value = v /\ e.round <= t

\* C33 (Outcome under a Byzantine sender): in a run in intended order whose
\* party 0 is Byzantine, once round 1 has been executed every honest party
\* is convinced of senderValue and of senderValue + 1 with rounds at most 1,
\* and at completion every honest party's decision is bottom.
C33_ByzantineSenderOutcome ==
    (IntendedOrder /\ ByzantineSender) =>
        /\ executedRounds # <<>> =>
               \A k \in Honest(nodes) :
                   /\ ConvincedBy(nodes[k], senderValue, 1)
                   /\ ConvincedBy(nodes[k], senderValue + 1, 1)
        /\ protocolComplete =>
               \A k \in Honest(nodes) : nodes[k].finalDecision = Null

\* a completed run in intended order with a Byzantine sender, two rounds and
\* at least two honest parties
C33_Witness ==
    /\ IntendedOrder
    /\ ByzantineSender
    /\ protocolComplete
    /\ executedRounds = RoundsOneTo(numByzantine + 1)
    /\ Cardinality(Honest(nodes)) >= 2

\* the party with this id is marked honest in the node table
HonestId(i) == HasNode(nodes, i) /\ ~NodeAt(nodes, i).isByzantine

\* C34 (Convictions stop after round 1): every entry value -> round of every
\* party's convincedValues has round 0 or 1, and no message of the log sent
\* by an honest party is tagged with a round of 2 or more.
C34_ConvictionsStopAfterRound1 ==
    /\ \A k \in DOMAIN nodes :
           \A e \in Entries(nodes[k].convincedValues) : e.round \in {0, 1}
    /\ \A k \in DOMAIN allMessages :
           HonestId(allMessages[k].fromNode) => allMessages[k].round <= 1

\* the values a run may carry: senderValue, and senderValue + 1 as well when
\* the node table marks the sender Byzantine
AllowedValues ==
    IF ByzantineSender THEN {senderValue, senderValue + 1} ELSE {senderValue}

\* the values of the logged messages addressed to party i
ReceivedBy(i) ==
    {allMessages[k].value :
        k \in {j \in DOMAIN allMessages : allMessages[j].toNode = i}}

\* every value of the log, of the inboxes and of the conviction sets is allowed
ValuesAllowed ==
    /\ \A k \in DOMAIN allMessages : allMessages[k].value \in AllowedValues
    /\ \A k \in DOMAIN nodes :
           /\ InboxValues(nodes[k]) \subseteq AllowedValues
           /\ KeySet(nodes[k].convincedValues) \subseteq AllowedValues

\* C35 (Value integrity): while a run is in progress every message value and
\* every key of every conviction set equals senderValue when the sender is
\* honest and is senderValue or senderValue + 1 when the sender is
\* Byzantine; and every message a Byzantine party other than the sender
\* sends carries the value of an earlier message of the log addressed to
\* that party.
C35_ValueIntegrity ==
    /\ [](isProtocolRunning => ValuesAllowed)
    /\ [][SameRun =>
            \A m \in NewMessages :
                (m.fromNode # 0 /\ ~HonestId(m.fromNode)') =>
                    m.value \in ReceivedBy(m.fromNode)]_vars

\* the positions of the node table marked Byzantine
Byzantine(tbl) == DOMAIN tbl \ Honest(tbl)

\* C36 (Byzantine conviction sets are frozen): once round 0 is over every
\* Byzantine party's convincedValues holds exactly one value; no later step
\* of the run changes it; and in a completed run every Byzantine party's
\* decision is that value (no choice among several convictions is made).
C36_ByzantineConvictionsFrozen ==
    /\ []((isProtocolRunning /\ currentRound >= 1) =>
            \A k \in Byzantine(nodes) : Len(nodes[k].convincedValues) = 1)
    /\ [][(SameRun /\ currentRound >= 1) =>
            \A k \in Byzantine(nodes) :
                /\ k \in DOMAIN nodes'
                /\ nodes'[k].convincedValues = nodes[k].convincedValues]_vars
    /\ [](Completed =>
            \A k \in Byzantine(nodes) :
                /\ Len(nodes[k].convincedValues) = 1
                /\ nodes[k].finalDecision = nodes[k].convincedValues[1].value)

\* C37 (Byzantine bookkeeping is consistent): in every state of a run the
\* byzantineNodes set is the set of ids the node table marks Byzantine.
C37_ByzantineBookkeeping ==
    isProtocolRunning => byzantineNodes = Marked(nodes)

\* m goes between two different parties of the run, is tagged with a round
\* of the run and was signed last by the party that sends it
WellAddressed(m) ==
    /\ m.fromNode # m.toNode
    /\ m.fromNode \in 0 .. numNodes - 1
    /\ m.toNode \in 0 .. numNodes - 1
    /\ 0 <= m.round /\ m.round <= numByzantine + 1
    /\ m.signatures # <<>>
    /\ m.signatures[Len(m.signatures)] = m.fromNode

\* C38 (No party signs for another): every message of the log and of every
\* inbox has different sender and addressee, both ids in [0, n), a round tag
\* between 0 and f+1, and a chain whose last entry is the id of its sender.
C38_NoPartySignsForAnother ==
    /\ \A k \in DOMAIN allMessages : WellAddressed(allMessages[k])
    /\ \A k \in DOMAIN nodes :
           \A j \in DOMAIN nodes[k].receivedMessages :
               WellAddressed(nodes[k].receivedMessages[j])

====
